---- MODULE Spec2Model ----
(***************************************************************************)
(* A model of the lock-free single-producer/single-consumer ring buffer of *)
(* src/ring_buf.c (rb_alloc_init, rb_push_ptr, rb_pull_ptr, rb_push_int,   *)
(* rb_pull_int) and of the two threads of src/ring_buf_test_int.c that     *)
(* drive it.  Every access of a thread to the shared block (an atomic      *)
(* load, the plain store or load of a cell, the publishing atomic store)   *)
(* is one action, so that TLC explores every interleaving of the accesses. *)
(***************************************************************************)
EXTENDS Integers, Sequences, FiniteSets, TLC

(***************************************************************************)
(* Widths.  The source's size_t and uint64_t are 64 bits wide and its      *)
(* int32_t 32 bits; the model keeps the arithmetic modulo 2^w and scales   *)
(* the widths down: one machine word (size_t, uint64_t, a pointer) is      *)
(* WordBits wide, the cell's size field Int32Bits wide.                    *)
(***************************************************************************)
WordBits == 8

Int32Bits == 4

\* Largest num_cells the protocol specification constructs a buffer with.
MaxCells == 4

\* Pushes the producer thread performs (NUM_MESSAGES of the test, scaled).
MaxPushes == 6

\* The history variable push_calls counts push calls up to this number.
MaxCalls == 5

\* Largest num_cells the pointer protocol specification constructs a buffer with.
MaxBlobCells == 2

\* How many operations before the wrap of the indices SpecWrap starts at most.
WrapLead == 3

RECURSIVE Pow2(_)
Pow2(n) == IF n = 0 THEN 1 ELSE 2 * Pow2(n - 1)

Word == Pow2(WordBits)

Words == 0 .. (Word - 1)

\* a + b and a - b in a machine word (unsigned, wrapping)
WAdd(a, b) == (a + b) % Word

WSub(a, b) == (a - b + Word) % Word

\* a & b on machine words
RECURSIVE BitAnd(_, _)
BitAnd(a, b) ==
    IF a = 0 \/ b = 0 THEN 0
    ELSE (a % 2) * (b % 2) + 2 * BitAnd(a \div 2, b \div 2)

\* size_t -> int32_t, as the assignment d->cells[index].size = size converts:
\* the low Int32Bits bits, read as a two's complement number.
ToInt32(size) ==
    LET low == size % Pow2(Int32Bits)
    IN  IF low >= Pow2(Int32Bits - 1) THEN low - Pow2(Int32Bits) ELSE low

\* int32_t -> size_t, as the assignment *size = d->cells[index].size converts:
\* the value modulo 2^WordBits (sign extension).
ToSizeT(i) == (i + Word) % Word

(***************************************************************************)
(* Status values, and the sizes of the two structures on a 64-bit build.   *)
(***************************************************************************)
RB_OK == 0

RB_FULL == -1

RB_EMPTY == -2

RB_ERROR == -3

RB_PARAM_ERROR == -4

RB_MEMORY_FAIL == -5

SizeofCell == 16

SizeofRingBuf == 32

(***************************************************************************)
(* State.                                                                  *)
(*   ring_buf         the handle main() keeps: "NULL" or "BLOCK"           *)
(*   capacity, max_alloc_size, head, tail, cells                           *)
(*                    the fields of the block; cells is a function over    *)
(*                    the cells the allocation really holds                *)
(*   prod, cons       the producer's and consumer's position and locals    *)
(*   out_data, out_size                                                    *)
(*                    the caller's output locations given to a pull: what  *)
(*                    its data (or idata) and size arguments point to      *)
(*   call             the arguments and the outcome of rb_alloc_init       *)
(* History variables, read by the properties only:                         *)
(*   unpulled         the arguments of the pushes that returned RB_OK and  *)
(*                    that no pull has returned yet, oldest first          *)
(*   n_pushed, n_pulled                                                    *)
(*                    how many pushes and pulls have returned RB_OK        *)
(*   push_calls       how many pushes were called on the block while no    *)
(*                    pull had returned RB_OK (MaxCalls: more, or a pull   *)
(*                    has)                                                 *)
(*   watch            follows the first pull called after a push returned  *)
(*                    RB_FULL                                              *)
(***************************************************************************)
VARIABLES ring_buf, capacity, max_alloc_size, head, tail, cells,
          prod, cons, out_data, out_size, call,
          unpulled, n_pushed, n_pulled, push_calls, watch

vars == <<ring_buf, capacity, max_alloc_size, head, tail, cells,
          prod, cons, out_data, out_size, call,
          unpulled, n_pushed, n_pulled, push_calls, watch>>

block == <<ring_buf, capacity, max_alloc_size, head, tail, cells>>

(***************************************************************************)
(* rb_alloc_init                                                           *)
(***************************************************************************)
\* A cell after memset(d, 1, total_memory) alone.
StaleCell == [size |-> 1, data |-> 1]

\* A cell after memset(d, 0, total_memory).
ZeroedCell == [size |-> 0, data |-> 0]

NullBlock ==
    [ring_buf |-> "NULL", capacity |-> 0, max_alloc_size |-> 0,
     head |-> 0, tail |-> 0, cells |-> <<>>]

\* total_memory = num_cells * sizeof(cell_t) + sizeof(ring_buf_t), in size_t
TotalMemory(num_cells) == (num_cells * SizeofCell + SizeofRingBuf) % Word

\* The cells that fit in an allocation of total_memory bytes after the header.
CellsIn(total_memory) ==
    IF total_memory < SizeofRingBuf THEN 0
    ELSE (total_memory - SizeofRingBuf) \div SizeofCell

\* The power-of-two test of line 29.
NotPowerOfTwo(num_cells) == BitAnd(num_cells, WSub(num_cells, 1)) # 0

\* The ceiling test of line 36.
OverCeiling(total_memory, ceiling) == total_memory > ceiling

\* The cells of a block of total_memory bytes, as the two memsets leave them.
ClearedCells(total_memory) ==
    IF CellsIn(total_memory) = 0 THEN <<>>
    ELSE [i \in 0 .. (CellsIn(total_memory) - 1) |-> ZeroedCell]

\* The block rb_alloc_init returns (NullBlock for NULL); alloc_ok is whether
\* aligned_alloc finds the memory.
rb_alloc_init(num_cells, ceiling, alloc_ok) ==
    IF NotPowerOfTwo(num_cells) THEN NullBlock
    ELSE LET total_memory == TotalMemory(num_cells)
         IN  IF OverCeiling(total_memory, ceiling) THEN NullBlock
             ELSE IF ~alloc_ok THEN NullBlock
             ELSE [ring_buf |-> "BLOCK",
                   capacity |-> num_cells,
                   max_alloc_size |-> ceiling,
                   head |-> 0,
                   tail |-> 0,
                   cells |-> ClearedCells(total_memory)]

SetBlock(b) ==
    /\ ring_buf' = b.ring_buf
    /\ capacity' = b.capacity
    /\ max_alloc_size' = b.max_alloc_size
    /\ head' = b.head
    /\ tail' = b.tail
    /\ cells' = b.cells

(***************************************************************************)
(* What the two threads pass to the entry points.                          *)
(***************************************************************************)
\* idata of rb_push_int
Values == {0, 1}

\* data and size of rb_push_ptr: NULL (0) or the address of a buffer, with a
\* size of 0, of 1, or the first size past the largest int32_t
Blobs == {<<0, 0>>, <<1, 0>>, <<0, 1>>, <<1, Pow2(Int32Bits - 1)>>}

\* The handle a caller passes: NULL, or what rb_alloc_init returned.
Handles == {"NULL", ring_buf}

\* d->capacity - 1
Mask(cap) == WSub(cap, 1)

(***************************************************************************)
(* The producer.  prod.pc is the access the running call makes next; a     *)
(* call's locals are dead once it has returned, and are cleared.  The full *)
(* test reads nothing shared, and is taken with the load of d->head before *)
(* it.  prod.absent records that the handle of the last call was null.     *)
(***************************************************************************)
ProdStart ==
    [pc |-> "idle", fn |-> "none", data |-> 0, size |-> 0,
     tail |-> 0, index |-> 0, rc |-> RB_OK, absent |-> FALSE]

ProdRet(fn, rc) == [ProdStart EXCEPT !.pc = "ret", !.fn = fn, !.rc = rc]

ProdEnter(fn, data, size) ==
    [ProdStart EXCEPT !.pc = "load_tail", !.fn = fn, !.data = data, !.size = size]

\* History: one more push called on the block.
CountPushCall ==
    push_calls' = IF push_calls < MaxCalls THEN push_calls + 1 ELSE MaxCalls

\* History: a push returns RB_FULL; when no pull is running, the next pull
\* called is the one to follow, and the oldest element is remembered.
WatchFull ==
    watch' = IF cons.pc \in {"idle", "ret"}
             THEN [st |-> "armed",
                   oldest |-> IF unpulled = <<>> THEN <<>> ELSE <<Head(unpulled)>>]
             ELSE watch

\* History: a push returns RB_OK.
NotePushed(data, size) ==
    /\ unpulled' = Append(unpulled, [data |-> data, size |-> size])
    /\ n_pushed' = n_pushed + 1

(*------------------------------ rb_push_int ------------------------------*)
\* Faulty full tests, to show that the properties below depend on the test:
\* the two sides compared without the mask, and a test that lets the
\* occupancy reach the capacity.
rb_push_int_full_unmasked(t, h, cap) == WAdd(t, 1) = h

rb_push_int_full_late(t, h, cap) == WSub(t, h) = cap

\* A full test that refuses a push one element early.
rb_push_int_full_spurious(t, h, cap) == WSub(t, h) >= cap - 2

\* A full test on the difference of the indices taken as numbers, which is
\* right until tail wraps.
rb_push_int_full_nowrap(t, h, cap) == t - h >= cap - 1

\* ((tail + 1) & (d->capacity - 1)) == (head & (d->capacity - 1))
rb_push_int_full(t, h, cap) ==
    BitAnd(WAdd(t, 1), Mask(cap)) = BitAnd(h, Mask(cap))

\* A faulty slot choice: the slot before the one tail names.
rb_push_int_index_before(t, cap) == BitAnd(WSub(t, 1), Mask(cap))

\* index = tail & (d->capacity - 1)
rb_push_int_index(t, cap) == BitAnd(t, Mask(cap))

\* the value stored to d->tail
rb_push_int_next(t) == WAdd(t, 1)

\* !d
rb_push_int_param_error(d, idata) == d = "NULL"

\* if (!d) return RB_PARAM_ERROR;
rb_push_int_call(d, idata) ==
    /\ prod.pc \in {"idle", "ret"}
    /\ n_pushed < MaxPushes
    /\ IF rb_push_int_param_error(d, idata)
       THEN /\ prod' = [ProdRet("push_int", RB_PARAM_ERROR) EXCEPT
                            !.absent = (d = "NULL")]
            /\ UNCHANGED push_calls
       ELSE /\ prod' = ProdEnter("push_int", idata, 0)
            /\ CountPushCall
    /\ UNCHANGED <<block, cons, out_data, out_size, call,
                   unpulled, n_pushed, n_pulled, watch>>

\* tail = atomic_load_explicit(&d->tail, memory_order_relaxed)
rb_push_int_load_tail ==
    /\ prod.pc = "load_tail"
    /\ prod.fn = "push_int"
    /\ prod' = [prod EXCEPT !.pc = "load_head", !.tail = tail]
    /\ UNCHANGED <<block, cons, out_data, out_size, call,
                   unpulled, n_pushed, n_pulled, push_calls, watch>>

\* A push that waits for room instead of returning RB_FULL.
rb_push_int_load_head_wait ==
    /\ prod.pc = "load_head"
    /\ prod.fn = "push_int"
    /\ ~rb_push_int_full(prod.tail, head, capacity)
    /\ prod' = [prod EXCEPT !.pc = "store",
                            !.index = rb_push_int_index(prod.tail, capacity)]
    /\ UNCHANGED <<block, cons, out_data, out_size, call,
                   unpulled, n_pushed, n_pulled, push_calls, watch>>

\* head = atomic_load_explicit(&d->head, memory_order_acquire), the full
\* test on it, and the choice of the slot
rb_push_int_load_head ==
    /\ prod.pc = "load_head"
    /\ prod.fn = "push_int"
    /\ IF rb_push_int_full(prod.tail, head, capacity)
       THEN /\ prod' = ProdRet("push_int", RB_FULL)
            /\ WatchFull
       ELSE /\ prod' = [prod EXCEPT !.pc = "store",
                                    !.index = rb_push_int_index(prod.tail, capacity)]
            /\ UNCHANGED watch
    /\ UNCHANGED <<block, cons, out_data, out_size, call,
                   unpulled, n_pushed, n_pulled, push_calls>>

\* d->cells[index].idata = idata (the slot is one of the block's cells in
\* every block the specifications below build)
rb_push_int_store ==
    /\ prod.pc = "store"
    /\ prod.fn = "push_int"
    /\ prod.index \in DOMAIN cells
    /\ cells' = [cells EXCEPT ![prod.index].data = prod.data]
    /\ prod' = [prod EXCEPT !.pc = "publish"]
    /\ UNCHANGED <<ring_buf, capacity, max_alloc_size, head, tail,
                   cons, out_data, out_size, call,
                   unpulled, n_pushed, n_pulled, push_calls, watch>>

\* the release fence, atomic_store_explicit(&d->tail, tail + 1, ...), return RB_OK
rb_push_int_publish ==
    /\ prod.pc = "publish"
    /\ prod.fn = "push_int"
    /\ tail' = rb_push_int_next(prod.tail)
    /\ prod' = ProdRet("push_int", RB_OK)
    /\ NotePushed(prod.data, prod.size)
    /\ UNCHANGED <<ring_buf, capacity, max_alloc_size, head, cells,
                   cons, out_data, out_size, call,
                   n_pulled, push_calls, watch>>

(*------------------------------ rb_push_ptr ------------------------------*)
\* A faulty full test: the two sides compared without the mask.
rb_push_ptr_full_unmasked(t, h, cap) == WAdd(t, 1) = h

\* ((tail + 1) & (d->capacity - 1)) == (head & (d->capacity - 1))
rb_push_ptr_full(t, h, cap) ==
    BitAnd(WAdd(t, 1), Mask(cap)) = BitAnd(h, Mask(cap))

\* index = tail & (d->capacity - 1)
rb_push_ptr_index(t, cap) == BitAnd(t, Mask(cap))

\* A faulty step of tail, which stores the masked index.
rb_push_ptr_next_masked(t) == BitAnd(WAdd(t, 1), Mask(capacity))

\* the value stored to d->tail
rb_push_ptr_next(t) == WAdd(t, 1)

\* what d->cells[index].size = size leaves in the cell's int32_t size field
rb_push_ptr_stored_size(size) == ToInt32(size)

\* A faulty check, which refuses a null data as well.
rb_push_ptr_param_error_null_data(d, data, size) == d = "NULL" \/ data = 0

\* !d
rb_push_ptr_param_error(d, data, size) == d = "NULL"

\* if (!d) return RB_PARAM_ERROR;
rb_push_ptr_call(d, data, size) ==
    /\ prod.pc \in {"idle", "ret"}
    /\ n_pushed < MaxPushes
    /\ IF rb_push_ptr_param_error(d, data, size)
       THEN /\ prod' = [ProdRet("push_ptr", RB_PARAM_ERROR) EXCEPT
                            !.absent = (d = "NULL")]
            /\ UNCHANGED push_calls
       ELSE /\ prod' = ProdEnter("push_ptr", data, size)
            /\ CountPushCall
    /\ UNCHANGED <<block, cons, out_data, out_size, call,
                   unpulled, n_pushed, n_pulled, watch>>

\* tail = atomic_load_explicit(&d->tail, memory_order_relaxed)
rb_push_ptr_load_tail ==
    /\ prod.pc = "load_tail"
    /\ prod.fn = "push_ptr"
    /\ prod' = [prod EXCEPT !.pc = "load_head", !.tail = tail]
    /\ UNCHANGED <<block, cons, out_data, out_size, call,
                   unpulled, n_pushed, n_pulled, push_calls, watch>>

\* head = atomic_load_explicit(&d->head, memory_order_acquire), the full
\* test on it, and the choice of the slot
rb_push_ptr_load_head ==
    /\ prod.pc = "load_head"
    /\ prod.fn = "push_ptr"
    /\ IF rb_push_ptr_full(prod.tail, head, capacity)
       THEN /\ prod' = ProdRet("push_ptr", RB_FULL)
            /\ WatchFull
       ELSE /\ prod' = [prod EXCEPT !.pc = "store",
                                    !.index = rb_push_ptr_index(prod.tail, capacity)]
            /\ UNCHANGED watch
    /\ UNCHANGED <<block, cons, out_data, out_size, call,
                   unpulled, n_pushed, n_pulled, push_calls>>

\* d->cells[index].data = data; d->cells[index].size = size
rb_push_ptr_store ==
    /\ prod.pc = "store"
    /\ prod.fn = "push_ptr"
    /\ prod.index \in DOMAIN cells
    /\ cells' = [cells EXCEPT ![prod.index] =
                     [data |-> prod.data, size |-> rb_push_ptr_stored_size(prod.size)]]
    /\ prod' = [prod EXCEPT !.pc = "publish"]
    /\ UNCHANGED <<ring_buf, capacity, max_alloc_size, head, tail,
                   cons, out_data, out_size, call,
                   unpulled, n_pushed, n_pulled, push_calls, watch>>

\* the release fence, atomic_store_explicit(&d->tail, tail + 1, ...), return RB_OK
rb_push_ptr_publish ==
    /\ prod.pc = "publish"
    /\ prod.fn = "push_ptr"
    /\ tail' = rb_push_ptr_next(prod.tail)
    /\ prod' = ProdRet("push_ptr", RB_OK)
    /\ NotePushed(prod.data, prod.size)
    /\ UNCHANGED <<ring_buf, capacity, max_alloc_size, head, cells,
                   cons, out_data, out_size, call,
                   n_pulled, push_calls, watch>>

(***************************************************************************)
(* The consumer.  The empty test is taken with the load of d->tail before  *)
(* it.  Besides the position and the locals, cons keeps what the           *)
(* properties need to know of the running (or last) call:                  *)
(*   absent   the handle or the data (idata) argument was null             *)
(*   snap     out_data and out_size when the function was entered          *)
(*   reused   the caller passes the two output locations of the previous   *)
(*            call, which returned RB_OK, as that call left them           *)
(*   drained  unpulled was empty when the call loaded d->tail              *)
(*   expect   the oldest unpulled element when the call published d->head  *)
(***************************************************************************)
ConsStart ==
    [pc |-> "idle", fn |-> "none", size_p |-> FALSE, absent |-> FALSE,
     head |-> 0, index |-> 0, rc |-> RB_OK,
     snap |-> <<0, 0>>, reused |-> FALSE, drained |-> FALSE, expect |-> <<>>]

ConsRet(c, rc) == [c EXCEPT !.pc = "ret", !.rc = rc, !.head = 0, !.index = 0]

\* History: a pull is called; an armed watch follows it if it passes the
\* parameter check, and a watch that has followed a pull is switched off.
WatchPullCall(passes) ==
    watch' = IF watch.st = "tracking" THEN [st |-> "off", oldest |-> <<>>]
             ELSE IF watch.st = "armed" /\ passes
                  THEN [watch EXCEPT !.st = "tracking"]
                  ELSE watch

\* History: a pull returns RB_OK.
NotePulled ==
    /\ unpulled' = IF unpulled = <<>> THEN <<>> ELSE Tail(unpulled)
    /\ n_pulled' = n_pulled + 1
    /\ push_calls' = MaxCalls

(*------------------------------ rb_pull_int ------------------------------*)
\* !d || !idata
rb_pull_int_param_error(d, idata_p) == d = "NULL" \/ ~idata_p

\* Faulty empty tests: one element left taken for none, and none taken for
\* some.
rb_pull_int_empty_early(h, t) == h = t \/ WAdd(h, 1) = t

rb_pull_int_empty_never(h, t) == h > t

\* head == tail
rb_pull_int_empty(h, t) == h = t

\* A faulty slot choice: the slot after the one head names.
rb_pull_int_index_after(h, cap) == BitAnd(WAdd(h, 1), Mask(cap))

\* index = head & (d->capacity - 1)
rb_pull_int_index(h, cap) == BitAnd(h, Mask(cap))

\* the value stored to d->head
rb_pull_int_next(h) == WAdd(h, 1)

\* if (!d || !idata) return RB_PARAM_ERROR;
rb_pull_int_call(d, idata_p) ==
    /\ cons.pc \in {"idle", "ret"}
    /\ LET entered == [ConsStart EXCEPT !.fn = "pull_int",
                                        !.absent = (d = "NULL" \/ ~idata_p),
                                        !.snap = <<out_data, out_size>>]
           error == rb_pull_int_param_error(d, idata_p)
       IN  /\ cons' = IF error THEN ConsRet(entered, RB_PARAM_ERROR)
                      ELSE [entered EXCEPT !.pc = "load_head"]
           /\ WatchPullCall(~error)
    /\ UNCHANGED <<block, prod, out_data, out_size, call,
                   unpulled, n_pushed, n_pulled, push_calls>>

\* head = atomic_load_explicit(&d->head, memory_order_relaxed)
rb_pull_int_load_head ==
    /\ cons.pc = "load_head"
    /\ cons.fn = "pull_int"
    /\ cons' = [cons EXCEPT !.pc = "load_tail", !.head = head]
    /\ UNCHANGED <<block, prod, out_data, out_size, call,
                   unpulled, n_pushed, n_pulled, push_calls, watch>>

\* tail = atomic_load_explicit(&d->tail, memory_order_acquire), the empty
\* test on it, and the choice of the slot
rb_pull_int_load_tail ==
    /\ cons.pc = "load_tail"
    /\ cons.fn = "pull_int"
    /\ LET seen == [cons EXCEPT !.drained = (unpulled = <<>>)]
       IN  cons' = IF rb_pull_int_empty(cons.head, tail)
                   THEN ConsRet(seen, RB_EMPTY)
                   ELSE [seen EXCEPT !.pc = "load",
                                     !.index = rb_pull_int_index(cons.head, capacity)]
    /\ UNCHANGED <<block, prod, out_data, out_size, call,
                   unpulled, n_pushed, n_pulled, push_calls, watch>>

\* *idata = d->cells[index].idata
rb_pull_int_load ==
    /\ cons.pc = "load"
    /\ cons.fn = "pull_int"
    /\ cons.index \in DOMAIN cells
    /\ out_data' = cells[cons.index].data
    /\ cons' = [cons EXCEPT !.pc = "publish"]
    /\ UNCHANGED <<block, prod, out_size, call,
                   unpulled, n_pushed, n_pulled, push_calls, watch>>

\* the release fence, atomic_store_explicit(&d->head, head + 1, ...), return RB_OK
rb_pull_int_publish ==
    /\ cons.pc = "publish"
    /\ cons.fn = "pull_int"
    /\ head' = rb_pull_int_next(cons.head)
    /\ cons' = ConsRet([cons EXCEPT !.expect =
                            IF unpulled = <<>> THEN <<>> ELSE <<Head(unpulled)>>],
                       RB_OK)
    /\ NotePulled
    /\ UNCHANGED <<ring_buf, capacity, max_alloc_size, tail, cells,
                   prod, out_data, out_size, call, n_pushed, watch>>

(*------------------------------ rb_pull_ptr ------------------------------*)
\* A faulty check, which leaves out the read of *size.
rb_pull_ptr_param_error_no_size(d, data_p, star_data, star_size) ==
    d = "NULL" \/ ~data_p \/ star_data # 0

\* !d || !data || *data || *size, with what the two reads find
rb_pull_ptr_param_error(d, data_p, star_data, star_size) ==
    d = "NULL" \/ ~data_p \/ star_data # 0 \/ star_size # 0

\* A faulty empty test, which takes an empty buffer for one that holds
\* something.
rb_pull_ptr_empty_never(h, t) == h > t

\* head == tail
rb_pull_ptr_empty(h, t) == h = t

\* index = head & (d->capacity - 1)
rb_pull_ptr_index(h, cap) == BitAnd(h, Mask(cap))

\* A faulty store to d->head: the cell after the one read is given up too.
rb_pull_ptr_next_skip(h) == WAdd(h, 2)

\* the value stored to d->head
rb_pull_ptr_next(h) == WAdd(h, 1)

\* what *size = d->cells[index].size puts in the caller's size_t
rb_pull_ptr_loaded_size(cell_size) == ToSizeT(cell_size)

\* The call, the caller having zeroed its two output locations before it
\* (rezero) or not.  The check reads *size only when d and data are present
\* and *data is null, and it reads it whether or not size is present: through
\* a null size the read is undefined, and either ends the process (and with
\* it both threads) or yields some value.
rb_pull_ptr_call(d, data_p, size_p, rezero) ==
    /\ cons.pc \in {"idle", "ret"}
    /\ LET star_data == IF rezero THEN 0 ELSE out_data
           star_size == IF rezero THEN 0 ELSE out_size
           reads_size == d # "NULL" /\ data_p /\ star_data = 0
           entered == [ConsStart EXCEPT
                           !.fn = "pull_ptr", !.size_p = size_p,
                           !.absent = (d = "NULL" \/ ~data_p),
                           !.snap = <<star_data, star_size>>,
                           !.reused = (~rezero /\ data_p /\ size_p
                                       /\ cons.pc = "ret" /\ cons.size_p
                                       /\ cons.fn = "pull_ptr" /\ cons.rc = RB_OK)]
       IN  /\ out_data' = star_data
           /\ out_size' = star_size
           /\ \/ /\ reads_size /\ ~size_p
                 /\ cons' = [entered EXCEPT !.pc = "crashed"]
                 /\ prod' = [prod EXCEPT !.pc = "crashed"]
                 /\ UNCHANGED watch
              \/ \E found \in IF reads_size /\ ~size_p THEN {0, 1} ELSE {star_size} :
                    LET error == rb_pull_ptr_param_error(d, data_p, star_data, found)
                    IN  /\ cons' = IF error THEN ConsRet(entered, RB_PARAM_ERROR)
                                   ELSE [entered EXCEPT !.pc = "load_head"]
                        /\ WatchPullCall(~error)
                        /\ UNCHANGED prod
    /\ UNCHANGED <<block, call, unpulled, n_pushed, n_pulled, push_calls>>

\* head = atomic_load_explicit(&d->head, memory_order_relaxed)
rb_pull_ptr_load_head ==
    /\ cons.pc = "load_head"
    /\ cons.fn = "pull_ptr"
    /\ cons' = [cons EXCEPT !.pc = "load_tail", !.head = head]
    /\ UNCHANGED <<block, prod, out_data, out_size, call,
                   unpulled, n_pushed, n_pulled, push_calls, watch>>

\* tail = atomic_load_explicit(&d->tail, memory_order_acquire), the empty
\* test on it, and the choice of the slot
rb_pull_ptr_load_tail ==
    /\ cons.pc = "load_tail"
    /\ cons.fn = "pull_ptr"
    /\ LET seen == [cons EXCEPT !.drained = (unpulled = <<>>)]
       IN  cons' = IF rb_pull_ptr_empty(cons.head, tail)
                   THEN ConsRet(seen, RB_EMPTY)
                   ELSE [seen EXCEPT !.pc = "load",
                                     !.index = rb_pull_ptr_index(cons.head, capacity)]
    /\ UNCHANGED <<block, prod, out_data, out_size, call,
                   unpulled, n_pushed, n_pulled, push_calls, watch>>

\* *data = d->cells[index].data; *size = d->cells[index].size; the store
\* through a null size is undefined: it ends the process, or is lost.
rb_pull_ptr_load ==
    /\ cons.pc = "load"
    /\ cons.fn = "pull_ptr"
    /\ cons.index \in DOMAIN cells
    /\ out_data' = cells[cons.index].data
    /\ \/ /\ cons.size_p
          /\ out_size' = rb_pull_ptr_loaded_size(cells[cons.index].size)
          /\ cons' = [cons EXCEPT !.pc = "publish"]
          /\ UNCHANGED prod
       \/ /\ ~cons.size_p
          /\ out_size' = out_size
          /\ \/ /\ cons' = [cons EXCEPT !.pc = "publish"]
                /\ UNCHANGED prod
             \/ /\ cons' = [cons EXCEPT !.pc = "crashed"]
                /\ prod' = [prod EXCEPT !.pc = "crashed"]
    /\ UNCHANGED <<block, call, unpulled, n_pushed, n_pulled, push_calls, watch>>

\* A pull that clears the slot it has consumed.
rb_pull_ptr_publish_clearing ==
    /\ cons.pc = "publish"
    /\ cons.fn = "pull_ptr"
    /\ head' = rb_pull_ptr_next(cons.head)
    /\ cells' = [cells EXCEPT ![cons.index] = ZeroedCell]
    /\ cons' = ConsRet([cons EXCEPT !.expect =
                            IF unpulled = <<>> THEN <<>> ELSE <<Head(unpulled)>>],
                       RB_OK)
    /\ NotePulled
    /\ UNCHANGED <<ring_buf, capacity, max_alloc_size, tail,
                   prod, out_data, out_size, call, n_pushed, watch>>

\* the release fence, atomic_store_explicit(&d->head, head + 1, ...), return RB_OK
rb_pull_ptr_publish ==
    /\ cons.pc = "publish"
    /\ cons.fn = "pull_ptr"
    /\ head' = rb_pull_ptr_next(cons.head)
    /\ cons' = ConsRet([cons EXCEPT !.expect =
                            IF unpulled = <<>> THEN <<>> ELSE <<Head(unpulled)>>],
                       RB_OK)
    /\ NotePulled
    /\ UNCHANGED <<ring_buf, capacity, max_alloc_size, tail, cells,
                   prod, out_data, out_size, call, n_pushed, watch>>

(***************************************************************************)
(* The protocol specifications: main() has built the buffer, the producer  *)
(* and the consumer thread run, both with the integer entry points (Spec)  *)
(* or both with the pointer entry points (SpecPtr): the slot carries no    *)
(* tag, and the callers of one buffer agree on what it holds.              *)
(***************************************************************************)
\* The state main() leaves when rb_alloc_init(num_cells, ceiling) returned a block.
Built(num_cells, ceiling) ==
    LET b == rb_alloc_init(num_cells, ceiling, TRUE)
    IN  /\ b.ring_buf = "BLOCK"
        /\ ring_buf = b.ring_buf
        /\ capacity = b.capacity
        /\ max_alloc_size = b.max_alloc_size
        /\ head = b.head
        /\ tail = b.tail
        /\ cells = b.cells
        /\ call = [called |-> TRUE, num_cells |-> num_cells,
                   max_alloc_size |-> ceiling, alloc_ok |-> TRUE]
        /\ prod = ProdStart
        /\ cons = ConsStart
        /\ unpulled = <<>>
        /\ n_pushed = 0
        /\ n_pulled = 0
        /\ push_calls = 0
        /\ watch = [st |-> "off", oldest |-> <<>>]

\* The consumer's idata is an uninitialised local.
Init ==
    /\ \E num_cells \in 1 .. MaxCells :
          \E ceiling \in {TotalMemory(num_cells), Word - 1} : Built(num_cells, ceiling)
    /\ out_data \in Values
    /\ out_size = 0

Next ==
    \/ \E d \in Handles, idata \in Values : rb_push_int_call(d, idata)
    \/ rb_push_int_load_tail
    \/ rb_push_int_load_head
    \/ rb_push_int_store
    \/ rb_push_int_publish
    \/ \E d \in Handles, idata_p \in BOOLEAN : rb_pull_int_call(d, idata_p)
    \/ rb_pull_int_load_head
    \/ rb_pull_int_load_tail
    \/ rb_pull_int_load
    \/ rb_pull_int_publish

Spec == Init /\ [][Next]_vars

InitPtr ==
    /\ \E num_cells \in 1 .. MaxBlobCells : Built(num_cells, Word - 1)
    /\ out_data \in {0, 1}
    /\ out_size = 0

NextPtr ==
    \/ \E d \in Handles, b \in Blobs : rb_push_ptr_call(d, b[1], b[2])
    \/ rb_push_ptr_load_tail
    \/ rb_push_ptr_load_head
    \/ rb_push_ptr_store
    \/ rb_push_ptr_publish
    \/ \E d \in Handles, data_p \in BOOLEAN, size_p \in BOOLEAN, rezero \in BOOLEAN :
          rb_pull_ptr_call(d, data_p, size_p, rezero)
    \/ rb_pull_ptr_load_head
    \/ rb_pull_ptr_load_tail
    \/ rb_pull_ptr_load
    \/ rb_pull_ptr_publish

SpecPtr == InitPtr /\ [][NextPtr]_vars

(***************************************************************************)
(* The construction specification: one call of rb_alloc_init, with every   *)
(* pair of machine words as its arguments.                                 *)
(***************************************************************************)
InitCreate ==
    /\ ring_buf = "NULL"
    /\ capacity = 0
    /\ max_alloc_size = 0
    /\ head = 0
    /\ tail = 0
    /\ cells = <<>>
    /\ call = [called |-> FALSE, num_cells |-> 0,
               max_alloc_size |-> 0, alloc_ok |-> FALSE]
    /\ prod = ProdStart
    /\ cons = ConsStart
    /\ out_data = 0
    /\ out_size = 0
    /\ unpulled = <<>>
    /\ n_pushed = 0
    /\ n_pulled = 0
    /\ push_calls = 0
    /\ watch = [st |-> "off", oldest |-> <<>>]

rb_alloc_init_call(num_cells, ceiling, alloc_ok) ==
    /\ ~call.called
    /\ SetBlock(rb_alloc_init(num_cells, ceiling, alloc_ok))
    /\ call' = [called |-> TRUE, num_cells |-> num_cells,
                max_alloc_size |-> ceiling, alloc_ok |-> alloc_ok]
    /\ UNCHANGED <<prod, cons, out_data, out_size,
                   unpulled, n_pushed, n_pulled, push_calls, watch>>

NextCreate ==
    /\ ~call.called
    /\ \E num_cells \in Words, ceiling \in Words, alloc_ok \in BOOLEAN :
          rb_alloc_init_call(num_cells, ceiling, alloc_ok)

SpecCreate == InitCreate /\ [][NextCreate]_vars

(***************************************************************************)
(* The two entry points of each side on one buffer (SpecMix): a caller may *)
(* use either at every call, the cell carrying no tag.                     *)
(***************************************************************************)
\* data and size of rb_push_ptr in SpecMix
MixBlobs == {<<0, 0>>, <<1, 1>>}

InitMix ==
    /\ \E num_cells \in 1 .. MaxBlobCells : Built(num_cells, Word - 1)
    /\ out_data = 0
    /\ out_size = 0

NextMix ==
    \/ \E d \in Handles, idata \in Values : rb_push_int_call(d, idata)
    \/ rb_push_int_load_tail
    \/ rb_push_int_load_head
    \/ rb_push_int_store
    \/ rb_push_int_publish
    \/ \E d \in Handles, idata_p \in BOOLEAN : rb_pull_int_call(d, idata_p)
    \/ rb_pull_int_load_head
    \/ rb_pull_int_load_tail
    \/ rb_pull_int_load
    \/ rb_pull_int_publish
    \/ \E d \in Handles, b \in MixBlobs : rb_push_ptr_call(d, b[1], b[2])
    \/ rb_push_ptr_load_tail
    \/ rb_push_ptr_load_head
    \/ rb_push_ptr_store
    \/ rb_push_ptr_publish
    \/ \E d \in Handles, data_p \in BOOLEAN, size_p \in BOOLEAN, rezero \in BOOLEAN :
          rb_pull_ptr_call(d, data_p, size_p, rezero)
    \/ rb_pull_ptr_load_head
    \/ rb_pull_ptr_load_tail
    \/ rb_pull_ptr_load
    \/ rb_pull_ptr_publish

SpecMix == InitMix /\ [][NextMix]_vars

(***************************************************************************)
(* The protocol near the wrap of the indices (SpecWrap).  The initial      *)
(* state is the one the buffer is in after the producer has pushed 0 and   *)
(* the consumer has pulled it `start` times, each pull before the next     *)
(* push: both indices stand at start, every cell holds 0, both threads     *)
(* have returned RB_OK.  start is up to WrapLead short of the largest      *)
(* word, and the history counters count from that state on.                *)
(***************************************************************************)
InitWrap ==
    \E num_cells \in 2 .. MaxCells, start \in (Word - WrapLead) .. (Word - 1) :
        LET b == rb_alloc_init(num_cells, Word - 1, TRUE)
        IN  /\ b.ring_buf = "BLOCK"
            /\ ring_buf = b.ring_buf
            /\ capacity = b.capacity
            /\ max_alloc_size = b.max_alloc_size
            /\ head = start
            /\ tail = start
            /\ cells = b.cells
            /\ call = [called |-> TRUE, num_cells |-> num_cells,
                       max_alloc_size |-> Word - 1, alloc_ok |-> TRUE]
            /\ prod = ProdRet("push_int", RB_OK)
            /\ cons = ConsRet([ConsStart EXCEPT
                                  !.fn = "pull_int",
                                  !.expect = <<[data |-> 0, size |-> 0]>>],
                              RB_OK)
            /\ out_data = 0
            /\ out_size = 0
            /\ unpulled = <<>>
            /\ n_pushed = 0
            /\ n_pulled = 0
            /\ push_calls = MaxCalls
            /\ watch = [st |-> "off", oldest |-> <<>>]

NextWrap ==
    \/ \E idata \in Values : rb_push_int_call(ring_buf, idata)
    \/ rb_push_int_load_tail
    \/ rb_push_int_load_head
    \/ rb_push_int_store
    \/ rb_push_int_publish
    \/ rb_pull_int_call(ring_buf, TRUE)
    \/ rb_pull_int_load_head
    \/ rb_pull_int_load_tail
    \/ rb_pull_int_load
    \/ rb_pull_int_publish

SpecWrap == InitWrap /\ [][NextWrap]_vars

(***************************************************************************)
(* The pointer entry points called as the header documents them            *)
(* (SpecPtrUse): the handle of the buffer, both output locations present   *)
(* and zeroed before every pull.  Without the refused and the undefined    *)
(* calls there is room for the larger buffers.                             *)
(***************************************************************************)
InitPtrUse ==
    /\ \E num_cells \in 1 .. MaxCells : Built(num_cells, Word - 1)
    /\ out_data = 0
    /\ out_size = 0

NextPtrUse ==
    \/ \E b \in Blobs : rb_push_ptr_call(ring_buf, b[1], b[2])
    \/ rb_push_ptr_load_tail
    \/ rb_push_ptr_load_head
    \/ rb_push_ptr_store
    \/ rb_push_ptr_publish
    \/ rb_pull_ptr_call(ring_buf, TRUE, TRUE, TRUE)
    \/ rb_pull_ptr_load_head
    \/ rb_pull_ptr_load_tail
    \/ rb_pull_ptr_load
    \/ rb_pull_ptr_publish

SpecPtrUse == InitPtrUse /\ [][NextPtrUse]_vars

(***************************************************************************)
(* The test program (SpecLive): producer() pushes the numbers 0, 1, ... of *)
(* its loop through do_push, which calls rb_push_int again until it        *)
(* returns RB_OK, and consumer() pulls as many through do_pull, which      *)
(* calls rb_pull_int again until it returns RB_OK.  MaxPushes stands for   *)
(* NUM_MESSAGES.  Each thread runs on a processor of its own, and takes    *)
(* its next step eventually.                                               *)
(***************************************************************************)
\* do_push(ring_buf, i): the first call, or the call after one that failed
producer_do_push == rb_push_int_call(ring_buf, n_pushed)

\* do_pull(ring_buf, &idata): the first call, or the call after one that failed
consumer_do_pull ==
    /\ n_pulled < MaxPushes
    /\ rb_pull_int_call(ring_buf, TRUE)

ProducerThread ==
    \/ producer_do_push
    \/ rb_push_int_load_tail
    \/ rb_push_int_load_head
    \/ rb_push_int_store
    \/ rb_push_int_publish

ConsumerThread ==
    \/ consumer_do_pull
    \/ rb_pull_int_load_head
    \/ rb_pull_int_load_tail
    \/ rb_pull_int_load
    \/ rb_pull_int_publish

InitLive ==
    /\ \E num_cells \in 2 .. MaxCells : Built(num_cells, Word - 1)
    /\ out_data \in Values
    /\ out_size = 0

NextLive ==
    \/ producer_do_push
    \/ rb_push_int_load_tail
    \/ rb_push_int_load_head
    \/ rb_push_int_store
    \/ rb_push_int_publish
    \/ consumer_do_pull
    \/ rb_pull_int_load_head
    \/ rb_pull_int_load_tail
    \/ rb_pull_int_load
    \/ rb_pull_int_publish

SpecLive ==
    /\ InitLive
    /\ [][NextLive]_vars
    /\ WF_vars(ProducerThread)
    /\ WF_vars(ConsumerThread)

(***************************************************************************)
(* Properties of the protocol with the integer entry points (Spec).        *)
(***************************************************************************)
\* Whether the consumer (the producer) stands at the return of a call of fn
\* that passed the parameter check.
PullReturned(fn) == cons.pc = "ret" /\ cons.fn = fn /\ cons.rc # RB_PARAM_ERROR

PushReturned(fn) == prod.pc = "ret" /\ prod.fn = fn /\ prod.rc # RB_PARAM_ERROR

\* C1: with the producer and the consumer running concurrently, every
\* rb_pull_int that returns RB_OK delivers the value of the oldest push that
\* returned RB_OK and was not yet pulled: the k-th successful pull returns the
\* value of the k-th successful push, and none is lost, duplicated, reordered
\* or invented.
C1_Fifo ==
    /\ n_pulled <= n_pushed
    /\ Len(unpulled) = n_pushed - n_pulled
    /\ (PullReturned("pull_int") /\ cons.rc = RB_OK) =>
           /\ cons.expect # <<>>
           /\ out_data = cons.expect[1].data

\* A pull delivers a 1 from a slot that is in use for the second time, while
\* the producer stands between its store to a slot and the store to tail.
C1_Witness ==
    /\ PullReturned("pull_int") /\ cons.rc = RB_OK
    /\ capacity > 2
    /\ n_pulled > capacity
    /\ out_data = 1
    /\ prod.pc = "publish"

\* C2: in every reachable state the occupancy tail - head, taken in the
\* machine word, is at least 0 and at most capacity - 1, and never reaches
\* the capacity.
C2_Occupancy ==
    /\ WSub(tail, head) >= 0
    /\ WSub(tail, head) <= capacity - 1
    /\ WSub(tail, head) # capacity
    /\ WSub(tail, head) = Len(unpulled)

\* A buffer of more than two cells holds capacity - 1 elements, both indices
\* having advanced.
C2_Witness ==
    /\ capacity > 2
    /\ head > 0
    /\ WSub(tail, head) = capacity - 1

\* C3: on a fresh buffer of capacity C, with no pull having returned RB_OK, the
\* first C - 1 pushes return RB_OK and the C-th push returns RB_FULL (on
\* capacity 1, the first push).
C3_FreshPushes ==
    (PushReturned("push_int") /\ push_calls < MaxCalls) =>
        /\ (push_calls <= capacity - 1) => prod.rc = RB_OK
        /\ (push_calls = capacity) => prod.rc = RB_FULL

\* The fourth push on a fresh buffer of four cells returns RB_FULL.
C3_Witness ==
    /\ PushReturned("push_int") /\ prod.rc = RB_FULL
    /\ capacity > 2
    /\ push_calls = capacity
    /\ push_calls < MaxCalls

\* On capacity 1 the first push returns RB_FULL.
C3_WitnessOne ==
    /\ PushReturned("push_int") /\ prod.rc = RB_FULL
    /\ capacity = 1
    /\ push_calls = 1

\* The steps of a push that returns RB_FULL: the call, the two loads, and the
\* return.
FullPushStep ==
    /\ prod' # prod
    /\ \/ prod'.pc \in {"load_tail", "load_head"}
       \/ prod'.pc = "ret" /\ prod'.rc = RB_FULL

\* No step of such a push writes an index or a cell.
C4_Frame == FullPushStep => UNCHANGED <<tail, head, cells>>

\* The first pull called after a push returned RB_FULL delivers the oldest
\* element the buffer held when the push returned.
C4_NextPull ==
    (watch.st = "tracking" /\ PullReturned("pull_int")) =>
        /\ cons.rc = RB_OK
        /\ watch.oldest # <<>>
        /\ out_data = watch.oldest[1].data

\* C4 as the specification states it: a push on a full buffer returns RB_FULL
\* and the next pull after it returns RB_OK with the oldest element, for
\* every capacity.
C4_Original == C4_NextPull

\* On capacity 1 the buffer is full while it is empty: the push returns
\* RB_FULL, and the pull after it RB_EMPTY.
C4_NextPullOnOne ==
    (watch.st = "tracking" /\ PullReturned("pull_int") /\ capacity = 1) =>
        /\ cons.rc = RB_EMPTY
        /\ watch.oldest = <<>>

\* C4: a push on a full buffer returns RB_FULL and writes neither index nor any
\* cell, however many times it is repeated; on a buffer of capacity at least
\* 2 the next pull after it returns RB_OK with the oldest element, and on
\* capacity 1 it returns RB_EMPTY.
C4_FullPush ==
    /\ [](capacity >= 2 => C4_NextPull)
    /\ []C4_NextPullOnOne
    /\ [][C4_Frame]_vars

\* A pull after a refused push has delivered the oldest element of a buffer of
\* four cells, and the producer has been refused again since.
C4_Witness ==
    /\ watch.st = "tracking"
    /\ PullReturned("pull_int") /\ cons.rc = RB_OK
    /\ capacity > 2
    /\ n_pulled > 1
    /\ PushReturned("push_int") /\ prod.rc = RB_FULL

\* The steps of a pull that returns RB_EMPTY: the call, the two loads, and the
\* return.
EmptyPullStep ==
    /\ cons' # cons
    /\ \/ cons'.pc \in {"load_head", "load_tail"}
       \/ cons'.pc = "ret" /\ cons'.rc = RB_EMPTY

\* No step of such a pull writes an index, a cell or an output location.
C5_Frame == EmptyPullStep => UNCHANGED <<head, tail, cells, out_data, out_size>>

\* Every pushed element has been pulled exactly when head equals tail; a pull
\* that finds the buffer so returns RB_EMPTY, and a pull that has returned
\* RB_EMPTY has left the output locations as the caller had them.
C5_Drained ==
    /\ (unpulled = <<>>) <=> (head = tail)
    /\ (PullReturned("pull_int") /\ cons.drained) => cons.rc = RB_EMPTY
    /\ (PullReturned("pull_int") /\ cons.rc = RB_EMPTY) =>
           <<out_data, out_size>> = cons.snap

\* C5: after every successfully pushed element has been pulled (head equals
\* tail) the next pull returns RB_EMPTY and changes nothing: neither index, no
\* cell, and not the caller's output locations.
C5_EmptyPull == []C5_Drained /\ [][C5_Frame]_vars

\* Elements were pushed and all pulled, and the pull after them has returned
\* RB_EMPTY with an output location that held 1.
C5_Witness ==
    /\ PullReturned("pull_int") /\ cons.rc = RB_EMPTY
    /\ cons.drained
    /\ n_pulled > 1
    /\ n_pulled = n_pushed
    /\ capacity > 1
    /\ out_data = 1

\* C9: the block rb_alloc_init returns has tail = 0, head = 0, capacity equal
\* to num_cells, max_alloc_size equal to the ceiling passed, and every cell
\* zeroed; a pull on it before any push returns RB_EMPTY.
C9_FreshBlock ==
    /\ capacity = call.num_cells
    /\ max_alloc_size = call.max_alloc_size
    /\ (n_pushed = 0 /\ n_pulled = 0 /\ prod.pc \notin {"store", "publish"}) =>
           /\ tail = 0
           /\ head = 0
           /\ \A i \in 0 .. (capacity - 1) :
                 i \in DOMAIN cells /\ cells[i] = [size |-> 0, data |-> 0]
    /\ (PullReturned("pull_int") /\ n_pushed = 0) => cons.rc = RB_EMPTY

\* The first pull on a fresh block of four cells, built under the ceiling
\* that just admits it, has returned RB_EMPTY before any push was called.
C9_Witness ==
    /\ PullReturned("pull_int") /\ cons.rc = RB_EMPTY
    /\ n_pushed = 0
    /\ prod.pc = "idle"
    /\ capacity > 2
    /\ max_alloc_size = capacity * SizeofCell + SizeofRingBuf

(***************************************************************************)
(* Properties of the protocol with the pointer entry points (SpecPtr).     *)
(***************************************************************************)
\* C6: a pair pushed by rb_push_ptr and pulled by rb_pull_ptr comes back with
\* the same pointer and the same size, for every size a size_t holds.
C6_RoundTrip ==
    (PullReturned("pull_ptr") /\ cons.rc = RB_OK /\ cons.size_p) =>
        /\ cons.expect # <<>>
        /\ out_data = cons.expect[1].data
        /\ out_size = cons.expect[1].size

\* What the parameter check of rb_pull_ptr is to reject: a null handle, a
\* null data, or an output location that holds something.
MustReject ==
    \/ cons.absent
    \/ cons.snap[1] # 0
    \/ cons.size_p /\ cons.snap[2] # 0

Rejected == cons.pc = "ret" /\ cons.rc = RB_PARAM_ERROR

\* A call that must be rejected is, whatever the buffer holds.
C10_Check == (cons.fn = "pull_ptr" /\ MustReject) => Rejected

\* The step that rejects a call consumes nothing.
C10_Frame ==
    (cons' # cons /\ cons'.pc = "ret" /\ cons'.rc = RB_PARAM_ERROR) =>
        UNCHANGED <<head, tail, cells, unpulled, n_pulled>>

\* A call given the outputs of the previous successful pull, not zeroed again,
\* is rejected.
C10_Reuse == (cons.fn = "pull_ptr" /\ cons.reused) => Rejected

C10_ReuseNonZero ==
    /\ (cons.fn = "pull_ptr" /\ cons.reused /\ cons.snap # <<0, 0>>) => Rejected
    /\ (cons.fn = "pull_ptr" /\ cons.reused /\ cons.snap = <<0, 0>>
          /\ ~cons.absent /\ cons.size_p) => ~Rejected

IsPowerOfTwo(n) == \E k \in 0 .. (WordBits - 1) : n = Pow2(k)

\* num_cells * sizeof(cell_t) + sizeof(ring_buf_t) as a number, not as a size_t
TrueTotal(n) == n * SizeofCell + SizeofRingBuf

\* C7: rb_alloc_init returns NULL for every num_cells that is not one of
\* 1, 2, 4, 8, ..., so that the capacity of every block it returns is a power
\* of two and at least 1; for a power of two within the ceiling it returns a
\* block (when the allocator has the memory).
C7_PowerOfTwoOnly ==
    call.called =>
        /\ ~IsPowerOfTwo(call.num_cells) => ring_buf = "NULL"
        /\ ring_buf = "BLOCK" => (IsPowerOfTwo(capacity) /\ capacity >= 1)
        /\ (IsPowerOfTwo(call.num_cells) /\ call.alloc_ok
              /\ TrueTotal(call.num_cells) <= call.max_alloc_size)
              => ring_buf = "BLOCK"

\* C8: for every pair of machine words num_cells and max_alloc_size,
\* rb_alloc_init returns NULL whenever the true value of
\* num_cells * sizeof(cell_t) + sizeof(ring_buf_t) exceeds max_alloc_size, and
\* the ceiling rejects no request whose true value does not exceed it.
C8_Ceiling ==
    call.called =>
        /\ TrueTotal(call.num_cells) > call.max_alloc_size => ring_buf = "NULL"
        /\ (TrueTotal(call.num_cells) <= call.max_alloc_size
              /\ ~NotPowerOfTwo(call.num_cells) /\ call.alloc_ok)
              => ring_buf = "BLOCK"

(***************************************************************************)
(* Properties of both pairs of entry points (SpecMix, SpecPtr).            *)
(***************************************************************************)
\* C11: rb_pull_ptr returns RB_PARAM_ERROR, without faulting, whenever d, data
\* or size is null, and rb_pull_int whenever d or idata is null.
C11_NullRejected ==
    /\ (cons.fn = "pull_ptr" /\ (cons.absent \/ ~cons.size_p)) => Rejected
    /\ (cons.fn = "pull_int" /\ cons.absent) => Rejected

PushRank(pc) ==
    CASE pc = "load_tail" -> 1
      [] pc = "load_head" -> 2
      [] pc = "store" -> 3
      [] pc = "publish" -> 4
      [] OTHER -> 5

PullRank(pc) ==
    CASE pc = "load_head" -> 1
      [] pc = "load_tail" -> 2
      [] pc = "load" -> 3
      [] pc = "publish" -> 4
      [] OTHER -> 5

\* The next step of a running call can be taken, whatever the buffer holds
\* and wherever the other thread stands.
C13_Enabled ==
    /\ (prod.fn = "push_int" /\ prod.pc = "load_tail") => ENABLED rb_push_int_load_tail
    /\ (prod.fn = "push_int" /\ prod.pc = "load_head") => ENABLED rb_push_int_load_head
    /\ (prod.fn = "push_int" /\ prod.pc = "store") => ENABLED rb_push_int_store
    /\ (prod.fn = "push_int" /\ prod.pc = "publish") => ENABLED rb_push_int_publish
    /\ (cons.fn = "pull_int" /\ cons.pc = "load_head") => ENABLED rb_pull_int_load_head
    /\ (cons.fn = "pull_int" /\ cons.pc = "load_tail") => ENABLED rb_pull_int_load_tail
    /\ (cons.fn = "pull_int" /\ cons.pc = "load") => ENABLED rb_pull_int_load
    /\ (cons.fn = "pull_int" /\ cons.pc = "publish") => ENABLED rb_pull_int_publish
    /\ prod.pc \in {"idle", "ret", "load_tail", "load_head", "store", "publish"}
    /\ cons.pc \in {"idle", "ret", "load_head", "load_tail", "load", "publish"}

\* Every step of a running call moves it on in program order, and a step of
\* one thread leaves the other thread's call where it stands.
C13_Progress ==
    /\ (prod' # prod /\ prod.pc \notin {"idle", "ret"}) =>
          /\ PushRank(prod'.pc) > PushRank(prod.pc)
          /\ cons' = cons
    /\ (cons' # cons /\ cons.pc \notin {"idle", "ret"}) =>
          /\ PullRank(cons'.pc) > PullRank(cons.pc)
          /\ prod' = prod

\* C13: every push and pull is non-blocking: in every state, and wherever the
\* other thread stands (in the middle of a call too), the next step of a
\* running call is enabled, and the call has returned after at most four
\* such steps.
C13_NonBlocking == []C13_Enabled /\ [][C13_Progress]_vars

\* The producer can publish into a buffer it has just filled while the
\* consumer stands in the middle of a pull, and the consumer can go on as
\* well.
C13_Witness ==
    /\ prod.fn = "push_int" /\ prod.pc = "publish"
    /\ cons.fn = "pull_int" /\ cons.pc = "load"
    /\ WSub(tail, head) = capacity - 2
    /\ capacity > 2
    /\ ENABLED rb_push_int_publish
    /\ ENABLED rb_pull_int_load

(***************************************************************************)
(* Properties of the test program (SpecLive).                              *)
(***************************************************************************)
\* Both loops are over.
C14_Done ==
    /\ n_pushed = MaxPushes /\ prod.pc = "ret"
    /\ n_pulled = MaxPushes /\ cons.pc = "ret"

\* What the consumer compares idata with: the number of its loop.
C14_InOrder ==
    (PullReturned("pull_int") /\ cons.rc = RB_OK) => out_data = n_pulled - 1

\* C14: on a buffer of capacity at least 2 and under fair scheduling, the
\* producer that calls push again on RB_FULL and the consumer that calls pull
\* again on RB_EMPTY both finish: all MaxPushes values are transferred, in
\* order, for more values than the buffer has cells too.
C14_Transfer == <>C14_Done /\ []C14_InOrder

\* Both loops are over on a buffer of fewer cells than values, the last value
\* being the last pulled.
C14_Witness ==
    /\ C14_Done
    /\ capacity < MaxPushes
    /\ out_data = MaxPushes - 1
    /\ head = MaxPushes
    /\ tail = MaxPushes

(***************************************************************************)
(* Properties of the protocol with the pointer entry points called as      *)
(* documented (SpecPtrUse).                                                *)
(***************************************************************************)
\* The slot of position p, and the slots of the positions head <= p < tail.
Slot(p) == BitAnd(p, Mask(capacity))

LiveSlots == {Slot(WAdd(head, k)) : k \in 0 .. (WSub(tail, head) - 1)}

\* The payload of a push as a cell holds it: the pointer, and the size in the
\* cell's int32_t.
InCell(e) == [data |-> e.data, size |-> ToInt32(e.size)]

\* The positions from head up to tail hold the payloads of the pushes not yet
\* pulled, in order, and the slot the producer is writing or has written but
\* not published is the one at tail, outside of them.
C15_Live ==
    /\ WSub(tail, head) = Len(unpulled)
    /\ \A k \in 1 .. Len(unpulled) :
          /\ Slot(WAdd(head, k - 1)) \in DOMAIN cells
          /\ cells[Slot(WAdd(head, k - 1))] = InCell(unpulled[k])
    /\ prod.pc \in {"store", "publish"} =>
          /\ prod.index = Slot(tail)
          /\ prod.index \notin LiveSlots

\* A cell changes only in the producer's store, which comes before the store
\* to tail, and only the cell the producer chose.
C15_Writes ==
    \A i \in DOMAIN cells :
        cells'[i] # cells[i] =>
            /\ prod.pc = "store" /\ prod'.pc = "publish"
            /\ i = prod.index
            /\ tail' = tail

\* C15: no element that is not yet pulled is overwritten: for every position
\* p with head <= p < tail the slot p & (capacity - 1) holds the payload of
\* the p-th successful push; the producer writes a slot only before it
\* publishes the tail that makes it visible, and never a slot in that range.
C15_NoOverwrite == []C15_Live /\ [][C15_Writes]_vars

\* On a buffer of four cells whose slots are in use for the second time, two
\* elements wait while the producer has written a third and not published it.
C15_Witness ==
    /\ prod.pc = "publish"
    /\ capacity > 2
    /\ WSub(tail, head) = 2
    /\ n_pushed >= capacity
    /\ cells[prod.index] # cells[Slot(head)]

\* C16: the producer and the consumer never access the same slot at the same
\* time: whenever a push has passed its full test and not yet published tail
\* while a pull has passed its empty test and not yet published head, the
\* slot tail & (capacity - 1) being written differs from the slot
\* head & (capacity - 1) being read.
C16_Disjoint ==
    (prod.pc \in {"store", "publish"} /\ cons.pc \in {"load", "publish"}) =>
        /\ prod.index = Slot(tail)
        /\ cons.index = Slot(head)
        /\ prod.index # cons.index

\* The producer is about to write a slot that has been in use before while
\* the consumer is about to read another.
C16_Witness ==
    /\ prod.pc = "store"
    /\ cons.pc = "load"
    /\ n_pushed >= capacity
    /\ capacity > 1
    /\ prod.index # cons.index

(***************************************************************************)
(* Properties of the protocol near the wrap of the indices (SpecWrap).     *)
(***************************************************************************)
\* C17: the protocol stays correct when the index counters overflow: with
\* head and tail wrapping modulo the machine word and never reset, and a
\* power-of-two capacity below the word, the masked full test, the unmasked
\* empty test and the slot selection keep the order of the elements and the
\* occupancy bound across the wrap of tail and of head.
C17_AcrossWrap ==
    /\ WSub(tail, head) = Len(unpulled)
    /\ WSub(tail, head) <= capacity - 1
    /\ \A k \in 1 .. Len(unpulled) :
          cells[BitAnd(WAdd(head, k - 1), Mask(capacity))].data = unpulled[k].data
    /\ (PullReturned("pull_int") /\ cons.rc = RB_OK) =>
          /\ cons.expect # <<>>
          /\ out_data = cons.expect[1].data
    /\ (PullReturned("pull_int") /\ cons.drained) => cons.rc = RB_EMPTY

\* tail has wrapped and head has not, the buffer of four cells is full, and
\* the consumer has pulled a 1.
C17_Witness ==
    /\ tail < head
    /\ capacity > 2
    /\ WSub(tail, head) = capacity - 1
    /\ PullReturned("pull_int") /\ cons.rc = RB_OK
    /\ out_data = 1
    /\ n_pulled > 0

\* Both indices have wrapped, and a pull after the wrap of head has delivered
\* a 1.
C17_WitnessBoth ==
    /\ head < capacity
    /\ tail < capacity
    /\ n_pulled > WrapLead
    /\ PullReturned("pull_int") /\ cons.rc = RB_OK
    /\ out_data = 1

(***************************************************************************)
(* Properties of every call of every entry point (SpecMix).                *)
(***************************************************************************)
\* C18: single-writer discipline.  A step of a push, whatever the push
\* returns, leaves head, capacity and max_alloc_size as they are; a step of a
\* pull, whatever the pull returns, leaves tail, capacity, max_alloc_size and
\* every cell as they are (a consumed cell keeps its payload); a cell is
\* written only by a push that has passed its full test, which returns RB_OK,
\* and the cell written is the one at tail & (capacity - 1).
C18_Step ==
    /\ prod' # prod => UNCHANGED <<head, capacity, max_alloc_size>>
    /\ cons' # cons => UNCHANGED <<tail, capacity, max_alloc_size, cells>>
    /\ UNCHANGED <<capacity, max_alloc_size>>
    /\ head' # head => cons' # cons
    /\ tail' # tail => prod' # prod
    /\ \A i \in DOMAIN cells :
          cells'[i] # cells[i] =>
              /\ prod.pc = "store"
              /\ i = BitAnd(tail, Mask(capacity))
    /\ (prod.pc \in {"store", "publish"} /\ prod' # prod) =>
          \/ prod'.pc \in {"publish", "crashed"}
          \/ prod'.pc = "ret" /\ prod'.rc = RB_OK

C18_SingleWriter == [][C18_Step]_vars

\* A pull has consumed a cell, which still holds the pointer it delivered,
\* and the producer has been refused since.
C18_Witness ==
    /\ PullReturned("pull_ptr") /\ cons.rc = RB_OK
    /\ cons.expect # <<>>
    /\ cons.expect[1].data = 1
    /\ cells[BitAnd(WSub(head, 1), Mask(capacity))].data = 1
    /\ prod.pc = "ret" /\ prod.rc = RB_FULL

\* An index changes only in the step in which its owner returns RB_OK, and
\* then by exactly 1, as does the count of the successful calls.
C19_Step ==
    /\ tail' # tail =>
          /\ prod.pc = "publish" /\ prod'.pc = "ret" /\ prod'.rc = RB_OK
    /\ (prod' # prod /\ prod'.pc = "ret" /\ prod'.rc = RB_OK) =>
          /\ tail' = WAdd(tail, 1)
          /\ n_pushed' = n_pushed + 1
    /\ (prod' # prod /\ prod'.pc = "ret" /\ prod'.rc \in {RB_FULL, RB_PARAM_ERROR}) =>
          UNCHANGED <<tail, head, n_pushed>>
    /\ head' # head =>
          /\ cons.pc = "publish" /\ cons'.pc = "ret" /\ cons'.rc = RB_OK
    /\ (cons' # cons /\ cons'.pc = "ret" /\ cons'.rc = RB_OK) =>
          /\ head' = WAdd(head, 1)
          /\ n_pulled' = n_pulled + 1
    /\ (cons' # cons /\ cons'.pc = "ret" /\ cons'.rc \in {RB_EMPTY, RB_PARAM_ERROR}) =>
          UNCHANGED <<tail, head, n_pulled>>
    /\ n_pushed' >= n_pushed
    /\ n_pulled' >= n_pulled

\* Each index is the number of the successful calls of its owner so far.
C19_Counts ==
    /\ tail = n_pushed % Word
    /\ head = n_pulled % Word

\* C19: a push that returns RB_OK advances tail by exactly 1 and a pull that
\* returns RB_OK advances head by exactly 1; a call that returns RB_FULL,
\* RB_EMPTY or RB_PARAM_ERROR changes neither index; along every execution
\* each index never decreases as a count and equals the number of successful
\* pushes, respectively pulls, so far.
C19_IndexStepping == []C19_Counts /\ [][C19_Step]_vars

\* After more successful pushes than the buffer has cells, the producer has
\* been refused and the consumer has returned RB_EMPTY, the indices standing
\* at the two counts.
C19_Witness ==
    /\ n_pushed > capacity
    /\ tail = n_pushed
    /\ head = n_pulled
    /\ n_pulled > 1
    /\ prod.pc = "ret" /\ prod.rc = RB_FULL
    /\ cons.pc = "ret" /\ cons.rc = RB_EMPTY

(***************************************************************************)
(* What a call observes (Spec).                                            *)
(***************************************************************************)
\* The step in which a push loads head decides: it returns RB_FULL exactly
\* when tail - head is capacity - 1 at that instant, and goes on to the store
\* exactly when it is less; a push that goes on returns RB_OK.  The step in
\* which a pull loads tail decides alike: it returns RB_EMPTY exactly when
\* head equals tail at that instant, and a pull that goes on returns RB_OK.
C20_Step ==
    /\ (prod.pc = "load_head" /\ prod' # prod) =>
          /\ (prod'.pc = "ret" /\ prod'.rc = RB_FULL)
                <=> (WSub(tail, head) = capacity - 1)
          /\ (prod'.pc = "store") <=> (WSub(tail, head) < capacity - 1)
    /\ (prod' # prod /\ prod'.pc = "ret" /\ prod'.rc = RB_FULL) =>
          prod.pc = "load_head"
    /\ (prod.pc = "store" /\ prod' # prod) => prod'.pc = "publish"
    /\ (prod.pc = "publish" /\ prod' # prod) =>
          (prod'.pc = "ret" /\ prod'.rc = RB_OK)
    /\ (cons.pc = "load_tail" /\ cons' # cons) =>
          /\ (cons'.pc = "ret" /\ cons'.rc = RB_EMPTY) <=> (head = tail)
          /\ (cons'.pc = "load") <=> (WSub(tail, head) > 0)
    /\ (cons' # cons /\ cons'.pc = "ret" /\ cons'.rc = RB_EMPTY) =>
          cons.pc = "load_tail"
    /\ (cons.pc = "load" /\ cons' # cons) => cons'.pc = "publish"
    /\ (cons.pc = "publish" /\ cons' # cons) =>
          (cons'.pc = "ret" /\ cons'.rc = RB_OK)

\* C20: RB_FULL and RB_EMPTY are never spurious with respect to what the call
\* observed: under concurrent operation a push returns RB_FULL only if
\* tail - head was exactly capacity - 1 at the instant it loaded head, and a
\* pull returns RB_EMPTY only if head equalled tail at the instant it loaded
\* tail; a push returns RB_OK whenever the occupancy it observed was below
\* capacity - 1 and a pull returns RB_OK whenever it was above 0.
C20_NotSpurious == [][C20_Step]_vars

\* The producer has been refused on a buffer of four cells from which the
\* consumer has pulled since, and which now holds less than capacity - 1.
C20_Witness ==
    /\ prod.pc = "ret" /\ prod.rc = RB_FULL /\ prod.fn = "push_int"
    /\ capacity > 2
    /\ WSub(tail, head) < capacity - 1
    /\ PullReturned("pull_int") /\ cons.rc = RB_OK

(***************************************************************************)
(* Refinement of a sequential queue (Spec).  The queue holds at most       *)
(* cap - 1 values; SeqPush and SeqPull give the status of an operation,    *)
(* the queue after it and, for a pull, the value delivered.  The abstract  *)
(* queue of a state of the buffer is the list of the values in the slots   *)
(* of the positions head .. tail - 1.                                      *)
(***************************************************************************)
SeqPush(q, v, cap) ==
    IF Len(q) >= cap - 1 THEN [status |-> RB_FULL, queue |-> q]
    ELSE [status |-> RB_OK, queue |-> Append(q, v)]

SeqPull(q) ==
    IF q = <<>> THEN [status |-> RB_EMPTY, queue |-> q, value |-> <<>>]
    ELSE [status |-> RB_OK, queue |-> Tail(q), value |-> <<Head(q)>>]

AbstractQueue ==
    [k \in 1 .. WSub(tail, head) |->
        cells[BitAnd(WAdd(head, k - 1), Mask(capacity))].data]

\* The values of the pushes not yet pulled.
UnpulledValues == [k \in 1 .. Len(unpulled) |-> unpulled[k].data]

\* The abstract queue is the list of the values pushed and not yet pulled,
\* and is within the bound of the sequential queue.
C21_Abstraction ==
    /\ WSub(tail, head) <= capacity - 1
    /\ \A k \in 1 .. WSub(tail, head) :
          BitAnd(WAdd(head, k - 1), Mask(capacity)) \in DOMAIN cells
    /\ AbstractQueue = UnpulledValues

\* The abstract queue after the step, read from the cells as before it.
AbstractQueueAfter ==
    [k \in 1 .. WSub(tail', head') |->
        cells'[BitAnd(WAdd(head', k - 1), Mask(capacity'))].data]

\* Every step is a step of the sequential queue with the same status and
\* value, or leaves the abstract queue as it is: the store to tail is a push
\* that returns RB_OK, the load of head that finds the buffer full a push that
\* returns RB_FULL, the store to head a pull that returns RB_OK with the
\* value the caller has been given, the load of tail that finds the buffer
\* empty a pull that returns RB_EMPTY.
C21_Step ==
    /\ (prod.pc = "publish" /\ prod' # prod) =>
          LET r == SeqPush(AbstractQueue, prod.data, capacity)
          IN  /\ prod'.pc = "ret" /\ prod'.rc = r.status
              /\ r.status = RB_OK
              /\ AbstractQueueAfter = r.queue
    /\ (prod.pc = "load_head" /\ prod' # prod /\ prod'.pc = "ret") =>
          LET r == SeqPush(AbstractQueue, prod.data, capacity)
          IN  /\ prod'.rc = r.status
              /\ r.status = RB_FULL
              /\ AbstractQueueAfter = r.queue
    /\ (cons.pc = "publish" /\ cons' # cons) =>
          LET r == SeqPull(AbstractQueue)
          IN  /\ cons'.pc = "ret" /\ cons'.rc = r.status
              /\ r.status = RB_OK
              /\ <<out_data'>> = r.value
              /\ AbstractQueueAfter = r.queue
    /\ (cons.pc = "load_tail" /\ cons' # cons /\ cons'.pc = "ret") =>
          LET r == SeqPull(AbstractQueue)
          IN  /\ cons'.rc = r.status
              /\ r.status = RB_EMPTY
              /\ AbstractQueueAfter = r.queue
    /\ (prod.pc # "publish" /\ cons.pc # "publish") =>
          AbstractQueueAfter = AbstractQueue
    /\ (prod' # prod /\ prod'.pc = "ret" /\ prod'.rc # RB_PARAM_ERROR) =>
          prod.pc \in {"publish", "load_head"}
    /\ (cons' # cons /\ cons'.pc = "ret" /\ cons'.rc # RB_PARAM_ERROR) =>
          cons.pc \in {"publish", "load_tail"}

\* C21: the concurrent buffer refines a sequential bounded FIFO queue of at
\* most capacity - 1 elements: with a successful push taking effect at its
\* store to tail, a successful pull at its store to head, a refused push at
\* its load of head and an empty pull at its load of tail, every interleaved
\* execution of one producer and one consumer yields the statuses and the
\* pulled values of the sequential queue, the abstract queue being the slots
\* of the positions head .. tail - 1.
C21_Refines == []C21_Abstraction /\ [][C21_Step]_vars

\* The queue of a buffer of four cells whose slots are in use for the second
\* time holds two values, the older a 1 and the newer a 0; the producer has
\* been refused and the consumer has been given a value.
C21_Witness ==
    /\ capacity > 2
    /\ n_pushed > capacity
    /\ AbstractQueue = <<1, 0>>
    /\ prod.pc = "ret" /\ prod.rc = RB_FULL
    /\ PullReturned("pull_int") /\ cons.rc = RB_OK

(***************************************************************************)
(* The two variants side by side (SpecMix).  Every step of a call of one   *)
(* variant is compared with what the operators of the other variant give   *)
(* on the same locals, indices and capacity.                               *)
(***************************************************************************)
\* The full test, the slot and the stored index of the variant other than fn.
OtherPushFull(fn, t, h, cap) ==
    IF fn = "push_int" THEN rb_push_ptr_full(t, h, cap)
                       ELSE rb_push_int_full(t, h, cap)

OtherPushIndex(fn, t, cap) ==
    IF fn = "push_int" THEN rb_push_ptr_index(t, cap)
                       ELSE rb_push_int_index(t, cap)

OtherPushNext(fn, t) ==
    IF fn = "push_int" THEN rb_push_ptr_next(t) ELSE rb_push_int_next(t)

OtherPullEmpty(fn, h, t) ==
    IF fn = "pull_int" THEN rb_pull_ptr_empty(h, t) ELSE rb_pull_int_empty(h, t)

OtherPullIndex(fn, h, cap) ==
    IF fn = "pull_int" THEN rb_pull_ptr_index(h, cap)
                       ELSE rb_pull_int_index(h, cap)

OtherPullNext(fn, h) ==
    IF fn = "pull_int" THEN rb_pull_ptr_next(h) ELSE rb_pull_int_next(h)

\* A step of the producer, respectively the consumer, in a call whose every
\* pointer argument is present.
C22_PushStep ==
    /\ prod' # prod
    /\ prod'.pc # "crashed"
    /\ ~prod'.absent

C22_PullStep ==
    /\ cons' # cons
    /\ cons'.pc # "crashed"
    /\ ~cons'.absent
    /\ cons'.fn = "pull_ptr" => cons'.size_p

\* The steps of a push: the same in both variants but for the cell's size.
C22_Push ==
    /\ (C22_PushStep /\ prod.pc \in {"idle", "ret"}) =>
          /\ prod'.pc = "load_tail"
          /\ UNCHANGED <<head, tail, cells>>
    /\ (C22_PushStep /\ prod.pc = "load_tail") =>
          /\ prod'.pc = "load_head"
          /\ prod'.tail = tail
          /\ UNCHANGED <<head, tail, cells>>
    /\ (C22_PushStep /\ prod.pc = "load_head") =>
          /\ IF OtherPushFull(prod.fn, prod.tail, head, capacity)
             THEN prod'.pc = "ret" /\ prod'.rc = RB_FULL
             ELSE /\ prod'.pc = "store"
                  /\ prod'.index = OtherPushIndex(prod.fn, prod.tail, capacity)
          /\ UNCHANGED <<head, tail, cells>>
    /\ (C22_PushStep /\ prod.pc = "store") =>
          /\ prod'.pc = "publish"
          /\ prod.index = OtherPushIndex(prod.fn, prod.tail, capacity)
          /\ \A i \in DOMAIN cells : i # prod.index => cells'[i] = cells[i]
          /\ cells'[prod.index].data = prod.data
          /\ cells'[prod.index].size =
                IF prod.fn = "push_int" THEN cells[prod.index].size
                                        ELSE rb_push_ptr_stored_size(prod.size)
          /\ UNCHANGED <<head, tail>>
    /\ (C22_PushStep /\ prod.pc = "publish") =>
          /\ prod'.pc = "ret" /\ prod'.rc = RB_OK
          /\ tail' = OtherPushNext(prod.fn, prod.tail)
          /\ UNCHANGED <<head, cells>>

\* The steps of a pull after its parameter check: the same in both variants
\* but for the size delivered.
C22_Pull ==
    /\ (C22_PullStep /\ cons.pc = "load_head") =>
          /\ cons'.pc = "load_tail"
          /\ cons'.head = head
          /\ UNCHANGED <<head, tail, cells, out_data, out_size>>
    /\ (C22_PullStep /\ cons.pc = "load_tail") =>
          /\ IF OtherPullEmpty(cons.fn, cons.head, tail)
             THEN cons'.pc = "ret" /\ cons'.rc = RB_EMPTY
             ELSE /\ cons'.pc = "load"
                  /\ cons'.index = OtherPullIndex(cons.fn, cons.head, capacity)
          /\ UNCHANGED <<head, tail, cells, out_data, out_size>>
    /\ (C22_PullStep /\ cons.pc = "load") =>
          /\ cons'.pc = "publish"
          /\ cons.index = OtherPullIndex(cons.fn, cons.head, capacity)
          /\ out_data' = cells[cons.index].data
          /\ out_size' = IF cons.fn = "pull_int" THEN out_size
                         ELSE rb_pull_ptr_loaded_size(cells[cons.index].size)
          /\ UNCHANGED <<head, tail, cells>>
    /\ (C22_PullStep /\ cons.pc = "publish") =>
          /\ cons'.pc = "ret" /\ cons'.rc = RB_OK
          /\ head' = OtherPullNext(cons.fn, cons.head)
          /\ UNCHANGED <<tail, cells, out_data, out_size>>

\* The step in which a pull is called: the call is taken past the parameter
\* check, whatever the variant.
C22_PullEntered ==
    /\ cons'.pc = "load_head"
    /\ UNCHANGED <<head, tail, cells>>

\* As first stated: the handle and the output locations are present.
C22_OriginalStep ==
    /\ C22_Push
    /\ C22_Pull
    /\ (C22_PullStep /\ cons.pc \in {"idle", "ret"}) => C22_PullEntered

C22_Original == [][C22_OriginalStep]_vars

\* With the output locations of rb_pull_ptr holding zero when it is entered.
C22_Step ==
    /\ C22_Push
    /\ C22_Pull
    /\ (C22_PullStep /\ cons.pc \in {"idle", "ret"}
          /\ (cons'.fn = "pull_ptr" => cons'.snap = <<0, 0>>)) => C22_PullEntered
    /\ (C22_PullStep /\ cons.pc \in {"idle", "ret"}
          /\ cons'.fn = "pull_ptr" /\ cons'.snap # <<0, 0>>) =>
          /\ cons'.pc = "ret" /\ cons'.rc = RB_PARAM_ERROR
          /\ UNCHANGED <<head, tail, cells>>

\* C22: from the same indices, cells and locals, a step of rb_push_int and
\* the step of rb_push_ptr at the same place return the same status, choose
\* the same slot and store the same tail, and a step of rb_pull_int and the
\* step of rb_pull_ptr return the same status and store the same head, when
\* the handle and the output locations are present and the output locations
\* of rb_pull_ptr hold zero on entry (rb_pull_ptr returns RB_PARAM_ERROR
\* otherwise, where rb_pull_int goes on); the variants differ only in the
\* size field, which rb_push_int leaves alone and rb_pull_int does not
\* deliver.
C22_SameProtocol == [][C22_Step]_vars

\* On one buffer of two cells, a pointer pushed by rb_push_ptr has been
\* delivered by rb_pull_int, and rb_push_ptr has been refused: both variants
\* have acted on the same indices.
C22_Witness ==
    /\ capacity = 2
    /\ n_pushed > capacity
    /\ PushReturned("push_ptr") /\ prod.rc = RB_FULL
    /\ PullReturned("pull_int") /\ cons.rc = RB_OK
    /\ out_data = 1
    /\ n_pulled >= 2

====
